---- MODULE Spec2Model ----
(***************************************************************************)
(* autoperft: a differential tester for chess move generators.             *)
(*                                                                         *)
(* The model follows src/src/lib.rs: PerftChecker::run slices the lines of *)
(* an EPD file, parse_epd reads one record, check_epd starts one           *)
(* check_splitperft::<false> per obligation, and check_splitperft compares *)
(* the user script's output with generate_splitperft and recurses          *)
(* (check_splitperft::<true>) along moves whose node counts differ.        *)
(*                                                                         *)
(* Text is modelled as text: a line is a sequence of one-character         *)
(* strings, the script's stdout is the sequence of its lines, and the      *)
(* parsers work on the characters.  The chess engine (chessie) is a fixed  *)
(* small game tree.                                                        *)
(***************************************************************************)
EXTENDS Integers, Sequences, FiniteSets, TLC

\* ------------------------------------------------------------------ bounds

\* Deepest obligation an EPD record of the model lists (D1 .. D<MaxDepth>).
MaxDepth == 3

\* Most lines an EPD file of the model holds.
MaxRecords == 2

\* ------------------------------------------------------------ text helpers

Digits == <<"0", "1", "2", "3", "4", "5", "6", "7", "8", "9">>

IsDigit(c) == \E i \in 1..10 : Digits[i] = c

DigitVal(c) == (CHOOSE i \in 1..10 : Digits[i] = c) - 1

\* char::is_ascii_whitespace, on the characters the model uses.
IsSpace(c) == c \in {" ", "\t"}

\* The failure value of a parse (Err / None).
NoParse == -1

RECURSIVE DigitsValue(_)
DigitsValue(s) ==
    IF s = <<>> THEN 0
    ELSE DigitsValue(SubSeq(s, 1, Len(s) - 1)) * 10 + DigitVal(s[Len(s)])

\* str::parse::<u64> / str::parse::<usize>: an optional '+', then one or more
\* digits and nothing else (no surrounding whitespace).  The values of the
\* model stay far below 2^64.
ParseU64(s) ==
    LET body == IF s # <<>> /\ s[1] = "+" THEN Tail(s) ELSE s
    IN  IF body # <<>> /\ \A i \in 1..Len(body) : IsDigit(body[i])
        THEN DigitsValue(body)
        ELSE NoParse

\* u64's Display: the decimal digits.
RECURSIVE U64ToString(_)
U64ToString(n) ==
    IF n < 10 THEN <<Digits[n + 1]>>
    ELSE U64ToString(n \div 10) \o <<Digits[(n % 10) + 1]>>

\* str::trim.
RECURSIVE TrimStart(_)
TrimStart(s) == IF s # <<>> /\ IsSpace(s[1]) THEN TrimStart(Tail(s)) ELSE s

RECURSIVE TrimEnd(_)
TrimEnd(s) ==
    IF s # <<>> /\ IsSpace(s[Len(s)]) THEN TrimEnd(SubSeq(s, 1, Len(s) - 1)) ELSE s

Trim(s) == TrimEnd(TrimStart(s))

\* str::split_ascii_whitespace: the maximal runs of non-whitespace, in order.
RECURSIVE TakeWord(_)
TakeWord(s) ==
    IF s = <<>> \/ IsSpace(s[1]) THEN <<>> ELSE <<s[1]>> \o TakeWord(Tail(s))

RECURSIVE SplitAsciiWhitespace(_)
SplitAsciiWhitespace(s) ==
    LET t == TrimStart(s)
        w == TakeWord(t)
    IN  IF t = <<>> THEN <<>>
        ELSE <<w>> \o SplitAsciiWhitespace(SubSeq(t, Len(w) + 1, Len(t)))

\* Vec::contains.
Contains(list, x) == \E i \in 1..Len(list) : list[i] = x

\* Vec::retain / Iterator::filter with "not contained in other".
RECURSIVE RetainNotIn(_, _)
RetainNotIn(list, other) ==
    IF list = <<>> THEN <<>>
    ELSE (IF Contains(other, list[1]) THEN <<>> ELSE <<list[1]>>)
         \o RetainNotIn(Tail(list), other)

\* The move labels of a splitperft, in order (map(|(mv, _)| mv)).
MoveLabels(split) == [i \in 1..Len(split) |-> split[i].mv]

RECURSIVE SumNodes(_)
SumNodes(split) ==
    IF split = <<>> THEN 0 ELSE split[1].nodes + SumNodes(Tail(split))

\* ------------------------------------------------------------ the oracle
\* chessie (Game, Move, perft) on a small fixed game tree.  A position is the
\* list of moves played from the one valid root FEN; a move label is text.

mA == <<"a">>

mB == <<"b">>

\* A label that is a legal move nowhere.
mX == <<"x">>

\* A token that is neither a move of the tree nor a number.
Garbage == <<"z", "z">>

RootFen == <<"F">>

\* Game::from_fen(fen) succeeds.
ValidFen(fen) == fen = RootFen

\* Game::get_legal_moves, in the engine's enumeration order.  The position
\* after the single move b has no legal move (a mate).
LegalMoves(path) ==
    IF path = <<>> THEN <<mA, mB>>
    ELSE IF path[Len(path)] = mA THEN <<mB, mA>>
    ELSE IF Len(path) = 1 THEN <<>>
    ELSE <<mA>>

\* Move::from_uci(&board, mv_str) is Ok.
IsLegal(path, mv) == Contains(LegalMoves(path), mv)

\* Every move of `moves` is legal where it is played from `path` on.
RECURSIVE MovesApply(_, _)
MovesApply(path, moves) ==
    IF moves = <<>> THEN TRUE
    ELSE IsLegal(path, moves[1]) /\ MovesApply(Append(path, moves[1]), Tail(moves))

\* perft: the number of leaves `depth` plies below the position.
RECURSIVE Perft(_, _)
RECURSIVE PerftOver(_, _, _)
Perft(path, depth) ==
    IF depth = 0 THEN 1 ELSE PerftOver(path, LegalMoves(path), depth - 1)

PerftOver(path, mvs, depth) ==
    IF mvs = <<>> THEN 0
    ELSE Perft(Append(path, mvs[1]), depth) + PerftOver(path, Tail(mvs), depth)

\* Game's Display: the FEN of the position reached.
RECURSIVE FenOf(_, _)
FenOf(fen, path) ==
    IF path = <<>> THEN fen ELSE FenOf(fen, SubSeq(path, 1, Len(path) - 1)) \o path[Len(path)]

\* ------------------------------------------------- lib.rs, pure functions

\* generate_splitperft(depth, fen, moves).  `depth - 1` is computed on a usize
\* once per legal move: with depth = 0 and a legal move it underflows, which
\* panics in a debug build and wraps to usize::MAX in a release build (a perft
\* that does not return).  status: "ok", "badfen" and "badmove" (the two
\* panics of lines 139 and 145), "underflow".
generate_splitperft(depth, fen, moves) ==
    IF ~ValidFen(fen) THEN [status |-> "badfen", split |-> <<>>, nodes |-> 0]
    ELSE IF ~MovesApply(<<>>, moves) THEN [status |-> "badmove", split |-> <<>>, nodes |-> 0]
    ELSE IF depth = 0 /\ LegalMoves(moves) # <<>>
         THEN [status |-> "underflow", split |-> <<>>, nodes |-> 0]
    ELSE LET mvs == LegalMoves(moves)
             split == [i \in 1..Len(mvs) |->
                         [mv |-> mvs[i], nodes |-> Perft(Append(moves, mvs[i]), depth - 1)]]
         IN  [status |-> "ok", split |-> split, nodes |-> SumNodes(split)]

\* generate_fen_from(fen, moves): the FEN after the moves, or a panic (the
\* unwraps of lines 303 and 306).
generate_fen_from(fen, moves) ==
    IF ValidFen(fen) /\ MovesApply(<<>>, moves)
    THEN [status |-> "ok", fen |-> FenOf(fen, moves)]
    ELSE [status |-> "panic", fen |-> <<>>]

\* parse_splitperft_output_nodes_only(stdout): the last line, parsed as it
\* stands.  status "ok", "noline" (no line at all) or "badtotal".
parse_splitperft_output_nodes_only(stdout) ==
    IF stdout = <<>> THEN [status |-> "noline", nodes |-> 0]
    ELSE LET n == ParseU64(stdout[Len(stdout)])
         IN  IF n = NoParse THEN [status |-> "badtotal", nodes |-> 0]
             ELSE [status |-> "ok", nodes |-> n]

\* The closure of parse_splitperft_results on one line: "skip" (fewer than
\* two tokens: filter_map drops the line), "panic" (the second token is no
\* number: the expect of line 108) or "entry".
ParseSplitLine(line) ==
    LET toks == SplitAsciiWhitespace(line)
    IN  IF Len(toks) < 2 THEN [kind |-> "skip", mv |-> <<>>, nodes |-> 0]
        ELSE IF ParseU64(toks[2]) = NoParse THEN [kind |-> "panic", mv |-> <<>>, nodes |-> 0]
        ELSE [kind |-> "entry", mv |-> toks[1], nodes |-> ParseU64(toks[2])]

RECURSIVE SplitEntries(_)
SplitEntries(stdout) ==
    IF stdout = <<>> THEN <<>>
    ELSE LET e == ParseSplitLine(stdout[1])
         IN  (IF e.kind = "entry" THEN <<[mv |-> e.mv, nodes |-> e.nodes]>> ELSE <<>>)
             \o SplitEntries(Tail(stdout))

\* parse_splitperft_results(stdout): every line of the output goes through
\* the closure, the last one included.
parse_splitperft_results(stdout) ==
    IF \E i \in 1..Len(stdout) : ParseSplitLine(stdout[i]).kind = "panic"
    THEN [status |-> "panic", split |-> <<>>]
    ELSE [status |-> "ok", split |-> SplitEntries(stdout)]

\* The characters of the model in ASCII order (the order of String's Ord).
Alphabet ==
    <<"\t", " ", "+", "0", "1", "2", "3", "4", "5", "6", "7", "8", "9", ";",
      "D", "F", "Z", "a", "b", "x", "z">>

CharOrd(c) == CHOOSE i \in 1..Len(Alphabet) : Alphabet[i] = c

\* String's `<`: lexicographic on the bytes.
RECURSIVE StrLess(_, _)
StrLess(s, t) ==
    IF t = <<>> THEN FALSE
    ELSE IF s = <<>> THEN TRUE
    ELSE IF s[1] # t[1] THEN CharOrd(s[1]) < CharOrd(t[1])
    ELSE StrLess(Tail(s), Tail(t))

\* Vec<String>::sort (stable, ascending).
RECURSIVE InsertSorted(_, _)
InsertSorted(list, x) ==
    IF list = <<>> THEN <<x>>
    ELSE IF StrLess(x, list[1]) THEN <<x>> \o list
    ELSE <<list[1]>> \o InsertSorted(Tail(list), x)

RECURSIVE Sort(_)
Sort(list) ==
    IF list = <<>> THEN <<>>
    ELSE InsertSorted(Sort(SubSeq(list, 1, Len(list) - 1)), list[Len(list)])

\* An Err of the move-list checks: what is wrong and the labels the message
\* lists ("listed"; "also" is the second list of the equal-length message).
NoDiff == [status |-> "ok", kind |-> "none", listed |-> <<>>, also |-> <<>>]

Diff(kind, listed, also) ==
    [status |-> "err", kind |-> kind, listed |-> listed, also |-> also]

\* check_move_lists_of_equal_length(expected, generated): the message joins
\* the two lists as they were passed.
check_move_lists_of_equal_length(expected, generated) ==
    LET illegal == RetainNotIn(generated, expected)
    IN  IF illegal # <<>> THEN Diff("substituted", generated, expected)
        ELSE NoDiff

\* check_move_lists(expected, generated).
check_move_lists(expected, generated) ==
    IF Len(expected) > Len(generated)
    THEN Diff("missing", RetainNotIn(expected, generated), <<>>)
    ELSE IF Len(expected) < Len(generated)
    THEN Diff("illegal", RetainNotIn(generated, expected), <<>>)
    ELSE check_move_lists_of_equal_length(expected, generated)

\* str::split(';').
RECURSIVE TakeUntil(_, _)
TakeUntil(s, c) ==
    IF s = <<>> \/ s[1] = c THEN <<>> ELSE <<s[1]>> \o TakeUntil(Tail(s), c)

RECURSIVE Split(_, _)
Split(s, c) ==
    LET first == TakeUntil(s, c)
    IN  IF Len(first) = Len(s) THEN <<first>>
        ELSE <<first>> \o Split(SubSeq(s, Len(first) + 2, Len(s)), c)

\* str::get(..) is Some: the byte index `at` ending (or starting) the range is
\* inside the text or at its end.
HasRange(s, at) == at <= Len(s)

\* The text of str::get(from..to) when it is Some (ASCII, one byte a char).
GetRange(s, from, to) == SubSeq(s, from + 1, to)

\* The body of parse_epd's loop on one part: "D<depth> <expected>".
ParsePerftData(perft_data) ==
    LET depth == IF HasRange(perft_data, 2)
                 THEN ParseU64(Trim(GetRange(perft_data, 1, 2))) ELSE NoParse
        expected == IF HasRange(perft_data, 3)
                    THEN ParseU64(Trim(GetRange(perft_data, 3, Len(perft_data))))
                    ELSE NoParse
    IN  IF depth = NoParse \/ expected = NoParse
        THEN [status |-> "err", depth |-> 0, expected |-> 0]
        ELSE [status |-> "ok", depth |-> depth, expected |-> expected]

\* parse_epd(epd): the FEN and the (depth, expected) pairs, or an Err.
parse_epd(epd) ==
    LET parts == Split(epd, ";")
        data == [i \in 1..(Len(parts) - 1) |-> ParsePerftData(parts[i + 1])]
    IN  IF \E i \in 1..Len(data) : data[i].status = "err"
        THEN [status |-> "err", fen |-> <<>>, tests |-> <<>>]
        ELSE [status |-> "ok", fen |-> Trim(parts[1]),
              tests |-> [i \in 1..Len(data) |->
                           [depth |-> data[i].depth, expected |-> data[i].expected]]]

\* ------------------------------------------------------ the user script
\* The script is a black box: exec_user_perft gets an exit status and the
\* lines of its stdout.  examples/perftree_script.rs is the well-behaved
\* script: one "<move>\t<nodes>" line per move, an empty line, the total.

SplitLine(e) == e.mv \o <<"\t">> \o U64ToString(e.nodes)

ScriptLines(split, total) ==
    [i \in 1..Len(split) |-> SplitLine(split[i])] \o << <<>>, U64ToString(total) >>

Ran(stdout) == [exit |-> "ok", stdout |-> stdout]

Crashed == [exit |-> "crash", stdout |-> <<>>]

\* The split a script prints when it is right.
RefSplit(depth, moves) ==
    IF depth = 0 THEN <<>>
    ELSE LET mvs == LegalMoves(moves)
         IN  [i \in 1..Len(mvs) |->
                [mv |-> mvs[i], nodes |-> Perft(Append(moves, mvs[i]), depth - 1)]]

\* `split` without its i-th entry.
DropAt(split, i) == SubSeq(split, 1, i - 1) \o SubSeq(split, i + 1, Len(split))

\* `split` with `by` added to its i-th count.
BumpAt(split, i, by) ==
    [j \in 1..Len(split) |->
        IF j = i THEN [mv |-> split[j].mv, nodes |-> split[j].nodes + by] ELSE split[j]]

BumpAll(split) == [j \in 1..Len(split) |-> [mv |-> split[j].mv, nodes |-> split[j].nodes + 1]]

\* `split` with the label of its i-th entry replaced.
RelabelAt(split, i, mv) ==
    [j \in 1..Len(split) |-> IF j = i THEN [mv |-> mv, nodes |-> split[j].nodes] ELSE split[j]]

Consistent(split) == ScriptLines(split, SumNodes(split))

\* What an arbitrary script may print for (depth, fen, moves): the right
\* answer and the ways of being wrong the checker distinguishes.
AnyOutputs(depth, fen, moves) ==
    IF ~(ValidFen(fen) /\ MovesApply(<<>>, moves))
    THEN {Crashed, Ran(ScriptLines(<<>>, 1))}
    ELSE LET ref == RefSplit(depth, moves)
             total == Perft(moves, depth)
             idx == 1..Len(ref)
             badCount == mA \o <<" ">> \o Garbage
         IN  {Crashed, Ran(<<>>), Ran(<<Garbage>>)}
             \cup {Ran(<<badCount, U64ToString(total)>>), Ran(<<badCount, U64ToString(total + 1)>>)}
             \cup {Ran(ScriptLines(ref, total)), Ran(ScriptLines(ref, total + 1))}
             \cup {Ran(Consistent(Append(ref, [mv |-> mX, nodes |-> 1])))}
             \cup {Ran(Consistent(BumpAll(ref)))}
             \cup {Ran(Consistent(DropAt(ref, i))) : i \in idx}
             \cup {Ran(Consistent(BumpAt(ref, i, 1))) : i \in idx}
             \cup {Ran(Consistent(RelabelAt(ref, i, mX))) : i \in idx}
             \cup {Ran(Consistent(Append(ref, ref[i]))) : i \in idx}
             \cup {Ran(ScriptLines(DropAt(ref, i), total)) : i \in idx}

\* A script that is deterministic: the well-behaved script with at most one
\* fault, at the position `at`.  kind:
\*   "none"      no fault;
\*   "missing"   its move generator omits the legal move mv at `at`;
\*   "extra"     its move generator adds the label mX at `at` (a subtree it
\*               counts as one node);
\*   "miscount"  it counts the subtree below at.mv one node too many whenever
\*               it reaches it from above, and is right when started there;
\*   "crash"     it exits with a failure status when started at `at`;
\*   "badtotal"  its last line is no number when started at `at`.
IsPrefix(p, q) == Len(p) <= Len(q) /\ SubSeq(q, 1, Len(p)) = p

UserLegal(g, path) ==
    IF path = g.at /\ g.kind = "missing" THEN RetainNotIn(LegalMoves(path), <<g.mv>>)
    ELSE IF path = g.at /\ g.kind = "extra" THEN Append(LegalMoves(path), mX)
    ELSE LegalMoves(path)

RECURSIVE UserPerft(_, _, _)
RECURSIVE UserPerftOver(_, _, _, _)
UserPerft(g, path, depth) ==
    LET below == IF depth = 0 \/ (path # <<>> /\ path[Len(path)] = mX) THEN 1
                 ELSE UserPerftOver(g, path, UserLegal(g, path), depth - 1)
    IN  IF g.kind = "miscount" /\ path = Append(g.at, g.mv) THEN below + 1 ELSE below

UserPerftOver(g, path, mvs, depth) ==
    IF mvs = <<>> THEN 0
    ELSE UserPerft(g, Append(path, mvs[1]), depth) + UserPerftOver(g, path, Tail(mvs), depth)

UserSplit(g, depth, moves) ==
    IF depth = 0 THEN <<>>
    ELSE LET mvs == UserLegal(g, moves)
         IN  [i \in 1..Len(mvs) |->
                [mv |-> mvs[i], nodes |-> UserPerft(g, Append(moves, mvs[i]), depth - 1)]]

FixedOutput(g, depth, fen, moves) ==
    IF ~(ValidFen(fen) /\ MovesApply(<<>>, moves)) THEN Crashed
    ELSE IF g.kind = "crash" /\ moves = g.at THEN Crashed
    ELSE IF g.kind = "badtotal" /\ moves = g.at
    THEN Ran(Append(ScriptLines(UserSplit(g, depth, moves), 0), Garbage))
    ELSE LET split == UserSplit(g, depth, moves)
         IN  Ran(ScriptLines(split, IF depth = 0 THEN 1 ELSE SumNodes(split)))

\* The answers the script `g` may give to one invocation.
Outputs(g, depth, fen, moves) ==
    IF g.mode = "any" THEN AnyOutputs(depth, fen, moves)
    ELSE {FixedOutput(g, depth, fen, moves)}

\* ------------------------------------------------------------ the state

VARIABLES
    entry,        \* "main": started by main(); "run": PerftChecker::run called directly
    file,         \* the lines of the EPD file
    start_index,  \* --skip / run's start_index
    end_index,    \* --first / run's end_index
    gen,          \* the user script
    runpc,        \* "start", "loop" (run's for loop), "done"
    epd_tests,    \* run: the slice of lines being run
    i,            \* run: how many lines of the slice have been taken
    fen,          \* check_epd: the FEN of the record
    tests,        \* check_epd: the obligations not yet started
    stack,        \* the frames of check_splitperft, the running one last
    result,       \* how the program ended, or Running
    cur,          \* bookkeeping on the obligation being checked: its record and
                  \* place in it, depth, FEN, the script's answer at the root, the
                  \* numbers of script runs, of generate_splitperft calls and of
                  \* recursive calls, and "running", "ok" or "failed"
    started,      \* the obligations started so far, as <<record, obligation>>
    invoked,      \* how many times the user script was executed
    log,          \* the arguments of the script's executions, in order
    first,        \* what an earlier run of the same command line did, or NoRun
    call,         \* a function of lib.rs called on its own: its name and arguments
    ret           \* what that call returned, or NoRet

vars ==
    <<entry, file, start_index, end_index, gen, runpc, epd_tests, i, fen, tests,
      stack, result, cur, started, invoked, log, first, call, ret>>

Outcome(status, kind, listed, also, moves, f) ==
    [status |-> status, kind |-> kind, listed |-> listed, also |-> also,
     moves |-> moves, fen |-> f]

Running == Outcome("running", "none", <<>>, <<>>, <<>>, <<>>)

\* Ok(()) of run.
RunOk == Outcome("ok", "none", <<>>, <<>>, <<>>, <<>>)

\* An Err without a move list.
Err(kind) == Outcome("err", kind, <<>>, <<>>, <<>>, <<>>)

Panic(kind) == Outcome("panic", kind, <<>>, <<>>, <<>>, <<>>)

\* A call that does not return.
Hang(kind) == Outcome("hang", kind, <<>>, <<>>, <<>>, <<>>)

\* std::process::exit(1) of main.
Exit1 == Outcome("exit", "args", <<>>, <<>>, <<>>, <<>>)

NoObligation ==
    [rec |-> 0, obl |-> 0, depth |-> 0, fen |-> <<>>, rootOut |-> Crashed,
     invocs |-> 0, splits |-> 0, calls |-> 0, state |-> "none"]

\* A frame of check_splitperft::<ILLEGAL>(depth, fen, moves).
Frame(depth, moves, illegal) ==
    [depth |-> depth, moves |-> moves, illegal |-> illegal, pc |-> "exec",
     stdout |-> <<>>, correct |-> <<>>, user |-> <<>>, idx |-> 0, calls |-> 0]

Top == stack[Len(stack)]

\* The arguments of one execution of the script (lines 67-69).
Invocation(depth, f, moves) == [depth |-> depth, fen |-> f, moves |-> moves]

NoRun == [ran |-> FALSE, result |-> Running, log |-> <<>>, started |-> <<>>, file |-> <<>>]

NoCall ==
    [fn |-> "none", expected |-> <<>>, generated |-> <<>>, stdout |-> <<>>,
     depth |-> 0, fen |-> <<>>, moves |-> <<>>]

NoRet == [status |-> "none"]

\* ----------------------------------------------------------- the inputs

\* The record "F;D<d> <perft>" ... of the depths `from`..`to`.
RECURSIVE Obligations(_, _)
Obligations(from, to) ==
    IF from > to THEN <<>>
    ELSE <<";", "D">> \o U64ToString(from) \o <<" ">> \o U64ToString(Perft(<<>>, from))
         \o Obligations(from + 1, to)

Record(from, to) == RootFen \o Obligations(from, to)

\* Lines that parse_epd or the engine rejects, and the depth-0 obligation.
OddRecords ==
    { RootFen \o <<";", "D">>,
      RootFen \o <<";", "D", "x", " ", "2">>,
      RootFen \o <<";", "D", "1", " ", "z">>,
      <<"Z", ";", "D", "1", " ", "2">>,
      <<" ">> \o RootFen \o <<" ", ";", "D", "0", " ", "1">> }

\* One obligation per record, or the depths 1..2 in order.
Records ==
    {Record(d, d) : d \in 1..MaxDepth} \cup {Record(1, 2)} \cup OddRecords

RECURSIVE Files(_)
Files(n) ==
    IF n = 0 THEN {<<>>}
    ELSE Files(n - 1) \cup {Append(f, r) : f \in {g \in Files(n - 1) : Len(g) = n - 1}, r \in Records}

RECURSIVE LegalPaths(_)
LegalPaths(n) ==
    IF n = 0 THEN {<<>>}
    ELSE LegalPaths(n - 1)
         \cup UNION {{Append(p, LegalMoves(p)[j]) : j \in 1..Len(LegalMoves(p))} :
                       p \in {q \in LegalPaths(n - 1) : Len(q) = n - 1}}

Script(mode, kind, at, mv) == [mode |-> mode, kind |-> kind, at |-> at, mv |-> mv]

\* The script that may answer anything, each time it is run.
AnyScript == Script("any", "none", <<>>, mA)

PerfectScript == Script("fixed", "none", <<>>, mA)

\* The deterministic scripts: the perfect one and those with one fault.
FixedScripts ==
    {PerfectScript}
    \cup UNION {{Script("fixed", kind, at, LegalMoves(at)[j]) :
                   kind \in {"missing", "miscount"}, j \in 1..Len(LegalMoves(at))} :
                 at \in LegalPaths(MaxDepth - 1)}
    \cup {Script("fixed", kind, at, mA) :
            kind \in {"extra", "crash", "badtotal"}, at \in LegalPaths(MaxDepth - 1)}

\* Three families of runs: every range over every file with the perfect
\* script; every file run whole with every deterministic script; every
\* one-record file with the script that may answer anything.
Init ==
    /\ file \in Files(MaxRecords)
    /\ start_index \in 0..(MaxRecords + 1)
    /\ end_index \in 0..(MaxRecords + 1)
    /\ entry \in {"main", "run"}
    /\ gen \in FixedScripts \cup {AnyScript}
    /\ \/ gen = PerfectScript
       \/ /\ gen.mode = "fixed"
          /\ entry = "run" /\ start_index = 0 /\ end_index = Len(file) /\ file # <<>>
       \/ /\ gen = AnyScript
          /\ entry = "run" /\ start_index = 0 /\ end_index = 1 /\ Len(file) = 1
    /\ runpc = "start"
    /\ epd_tests = <<>>
    /\ i = 0
    /\ fen = <<>>
    /\ tests = <<>>
    /\ stack = <<>>
    /\ result = Running
    /\ cur = NoObligation
    /\ started = <<>>
    /\ invoked = 0
    /\ log = <<>>
    /\ first = NoRun
    /\ call = NoCall
    /\ ret = NoRet

\* ---------------------------------------------------------- the actions

\* The failure is noted and the loops of run and check_epd go on.
EndContinue(res, c) ==
    /\ result' = res
    /\ runpc' = runpc
    /\ stack' = <<>>
    /\ cur' = [c EXCEPT !.state = IF c.state = "running" THEN "failed" ELSE c.state]

\* The program ends with `res`: an Err carried up by `?`, a panic, a hang.
End(res, c) ==
    /\ result' = res
    /\ runpc' = "done"
    /\ stack' = <<>>
    /\ cur' = [c EXCEPT !.state = IF c.state = "running" THEN "failed" ELSE c.state]

\* check_splitperft returns Ok(()): the frame is popped; the caller goes on,
\* or, for the outermost frame, check_epd does.
ReturnOk(c) ==
    /\ stack' = SubSeq(stack, 1, Len(stack) - 1)
    /\ cur' = IF Len(stack) = 1 THEN [c EXCEPT !.state = "ok"] ELSE c
    /\ UNCHANGED <<result, runpc>>

\* main (lines 34-55) up to the call of run, and run (lines 24-34) up to its
\* loop: the argument check of main, then the slice [start_index..end_index]
\* of the collected lines, which panics when the range is not inside them.
RunStart ==
    /\ runpc = "start"
    /\ IF entry = "main" /\ start_index >= end_index
       THEN End(Exit1, cur) /\ UNCHANGED epd_tests
       ELSE IF start_index > end_index \/ end_index > Len(file)
       THEN End(Panic("slice"), cur) /\ UNCHANGED epd_tests
       ELSE /\ epd_tests' = SubSeq(file, start_index + 1, end_index)
            /\ runpc' = "loop"
            /\ UNCHANGED <<result, stack, cur>>
    /\ UNCHANGED <<entry, file, start_index, end_index, gen, i, fen, tests, started, invoked>>
    /\ UNCHANGED <<log, first, call, ret>>

\* run, lines 36-46: the next line of the slice is parsed, or run returns Ok.
NextRecord ==
    /\ runpc = "loop" /\ stack = <<>> /\ tests = <<>>
    /\ IF i = Len(epd_tests)
       THEN End(RunOk, cur) /\ UNCHANGED <<i, fen, tests>>
       ELSE LET parsed == parse_epd(epd_tests[i + 1])
            IN  IF parsed.status = "err"
                THEN End(Err("epd"), cur) /\ UNCHANGED <<i, fen, tests>>
                ELSE /\ i' = i + 1
                     /\ fen' = parsed.fen
                     /\ tests' = parsed.tests
                     /\ UNCHANGED <<result, runpc, stack, cur>>
    /\ UNCHANGED <<entry, file, start_index, end_index, gen, epd_tests, started, invoked>>
    /\ UNCHANGED <<log, first, call, ret>>

\* The obligation's second number is taken for its depth.
TestDepthFromExpected(test) == test.expected

\* for (depth, expected) in tests: what check_epd passes on (line 54).
TestDepth(test) == test.depth

\* check_epd, lines 51-55: the next obligation is checked from the root.
StartCheck ==
    /\ runpc = "loop" /\ stack = <<>> /\ tests # <<>>
    /\ LET obl == IF cur.rec = i THEN cur.obl + 1 ELSE 1
       IN  /\ stack' = <<Frame(TestDepth(tests[1]), <<>>, FALSE)>>
           /\ cur' = [NoObligation EXCEPT !.rec = i, !.obl = obl, !.fen = fen,
                          !.depth = TestDepth(tests[1]), !.state = "running"]
           /\ started' = Append(started, <<i, obl>>)
    /\ tests' = Tail(tests)
    /\ UNCHANGED <<entry, file, start_index, end_index, gen, runpc, epd_tests, i, fen,
                   result, invoked>>
    /\ UNCHANGED <<log, first, call, ret>>

\* `stack` with its running frame replaced.
WithTop(f) == [stack EXCEPT ![Len(stack)] = f]

\* A find that takes the first entry whatever its label.
FindMoveFirst(user, mv) == IF user = <<>> THEN 0 ELSE 1

\* user_splitperft.iter().find(|(user_mv, _)| *user_mv == mv): the index of
\* the first entry with the label, 0 for None.
FindMove(user, mv) ==
    IF \E j \in 1..Len(user) : user[j].mv = mv
    THEN CHOOSE j \in 1..Len(user) :
            user[j].mv = mv /\ \A k \in 1..(j - 1) : user[k].mv # mv
    ELSE 0

\* The splitperft is scanned whatever the totals are.
NodesDifferAlways(user_nodes, correct_nodes) == TRUE

\* The test of line 253.
NodesDiffer(user_nodes, correct_nodes) == user_nodes # correct_nodes

\* The test of line 283.
MoveNodesDiffer(user_nodes_for_mv, correct_nodes_for_mv) ==
    user_nodes_for_mv # correct_nodes_for_mv

\* The depth of the recursive call of line 291.
NextDepth(depth) == depth - 1

\* The recursive call is given its caller's own list.
moves_to_inspect_aliased(moves, mv) == moves

\* Lines 287-288: a copy of the caller's moves with mv pushed.
moves_to_inspect(moves, mv) == Append(moves, mv)

\* check_splitperft, line 212 (exec_user_perft, lines 61-91): the script is
\* run once; a failure status is an Err.
ExecUserPerft ==
    /\ runpc = "loop" /\ stack # <<>> /\ Top.pc = "exec"
    /\ \E out \in Outputs(gen, Top.depth, fen, Top.moves) :
         LET c == [cur EXCEPT !.invocs = @ + 1,
                              !.rootOut = IF Len(stack) = 1 THEN out ELSE @]
         IN  /\ invoked' = invoked + 1
             /\ IF out.exit # "ok"
                THEN End(Err("crashed"), c)
                ELSE /\ stack' = WithTop([Top EXCEPT !.pc = "compare", !.stdout = out.stdout])
                     /\ cur' = c
                     /\ UNCHANGED <<result, runpc>>
    /\ log' = Append(log, Invocation(Top.depth, fen, Top.moves))
    /\ UNCHANGED <<entry, file, start_index, end_index, gen, epd_tests, i, fen, tests, started>>
    /\ UNCHANGED <<first, call, ret>>

\* check_splitperft, lines 214-262: the total is parsed, the correct
\* splitperft generated; then the depth-1 diagnosis of an illegal line, or
\* the comparison of the totals.
CompareNodes ==
    /\ runpc = "loop" /\ stack # <<>> /\ Top.pc = "compare"
    /\ LET f == Top
           total == parse_splitperft_output_nodes_only(f.stdout)
           gsp == generate_splitperft(f.depth, fen, f.moves)
           c == [cur EXCEPT !.splits = @ + 1]
           usp == parse_splitperft_results(f.stdout)
           diff == check_move_lists(Sort(MoveLabels(gsp.split)), Sort(MoveLabels(usp.split)))
           new_fen == generate_fen_from(fen, f.moves)
       IN  IF total.status # "ok" THEN End(Err(total.status), cur)
           ELSE IF gsp.status \in {"badfen", "badmove"} THEN End(Panic(gsp.status), c)
           ELSE IF gsp.status = "underflow"
           THEN \E res \in {Panic("underflow"), Hang("underflow")} : End(res, c)
           ELSE IF f.illegal /\ f.depth = 1
           THEN IF usp.status = "panic" THEN End(Panic("expect"), c)
                ELSE IF diff.status = "ok" THEN End(Panic("unreachable"), c)
                ELSE IF new_fen.status # "ok" THEN End(Panic("fen"), c)
                ELSE End(Outcome("err", diff.kind, diff.listed, diff.also,
                                 f.moves, new_fen.fen), c)
           ELSE IF NodesDiffer(total.nodes, gsp.nodes)
           THEN IF usp.status = "panic" THEN End(Panic("expect"), c)
                ELSE /\ stack' = WithTop([f EXCEPT !.pc = "scan", !.idx = 1,
                                                   !.correct = gsp.split, !.user = usp.split])
                     /\ cur' = c
                     /\ UNCHANGED <<result, runpc>>
           ELSE ReturnOk(c)
    /\ UNCHANGED <<entry, file, start_index, end_index, gen, epd_tests, i, fen, tests,
                   started, invoked>>
    /\ UNCHANGED <<log, first, call, ret>>

\* check_splitperft, lines 264-296: one turn of the loop over the correct
\* splitperft, or the Ok(()) after it.
ScanMove ==
    /\ runpc = "loop" /\ stack # <<>> /\ Top.pc = "scan"
    /\ LET f == Top
           mv == f.correct[f.idx].mv
           j == FindMove(f.user, mv)
           new_fen == generate_fen_from(fen, f.moves)
       IN  IF f.idx > Len(f.correct) THEN ReturnOk(cur)
           ELSE IF j = 0
           THEN IF new_fen.status # "ok" THEN End(Panic("fen"), cur)
                ELSE End(Outcome("err", "missing_move", <<mv>>, MoveLabels(f.user),
                                 f.moves, new_fen.fen), cur)
           ELSE IF MoveNodesDiffer(f.user[j].nodes, f.correct[f.idx].nodes)
           THEN /\ stack' = Append(WithTop([f EXCEPT !.idx = @ + 1, !.calls = @ + 1]),
                                   Frame(NextDepth(f.depth), moves_to_inspect(f.moves, mv), TRUE))
                /\ cur' = [cur EXCEPT !.calls = @ + 1]
                /\ UNCHANGED <<result, runpc>>
           ELSE /\ stack' = WithTop([f EXCEPT !.idx = @ + 1])
                /\ UNCHANGED <<result, runpc, cur>>
    /\ UNCHANGED <<entry, file, start_index, end_index, gen, epd_tests, i, fen, tests,
                   started, invoked>>
    /\ UNCHANGED <<log, first, call, ret>>

Next ==
    \/ RunStart
    \/ NextRecord
    \/ StartCheck
    \/ ExecUserPerft
    \/ CompareNodes
    \/ ScanMove

Spec == Init /\ [][Next]_vars

\* The program is sequential: whatever step is possible is taken.
FairSpec == Spec /\ WF_vars(Next)

\* ------------------------------------------- the functions on their own
\* The functions of lib.rs that take no state, each called once on arguments
\* drawn from bounded sets.

\* The longest move list and the longest script output (in lines).
MaxMoves == 3

MaxLines == 3

RECURSIVE MoveLists(_)
MoveLists(n) ==
    IF n = 0 THEN {<<>>}
    ELSE MoveLists(n - 1)
         \cup {Append(l, mv) : l \in {m \in MoveLists(n - 1) : Len(m) = n - 1},
                               mv \in {mA, mB, mX}}

\* The shapes of a line of output: entries (tab or blank between the tokens),
\* the empty line, a number, a number in blanks, an entry whose count is no
\* number, a lone word, a lone label.
OutputLines ==
    { mA \o <<"\t", "1">>, mB \o <<" ", "2">>, <<>>, <<"3">>, <<" ", "3", " ">>,
      mA \o <<" ">> \o Garbage, Garbage, mA }

RECURSIVE Stdouts(_)
Stdouts(n) ==
    IF n = 0 THEN {<<>>}
    ELSE Stdouts(n - 1)
         \cup {Append(o, l) : o \in {q \in Stdouts(n - 1) : Len(q) = n - 1}, l \in OutputLines}

Calls ==
    {[NoCall EXCEPT !.fn = "check_move_lists", !.expected = e, !.generated = g] :
        e \in MoveLists(MaxMoves), g \in MoveLists(MaxMoves)}
    \cup {[NoCall EXCEPT !.fn = fn, !.stdout = o] :
            fn \in {"parse_splitperft_results", "parse_splitperft_output_nodes_only"},
            o \in Stdouts(MaxLines)}
    \cup {[NoCall EXCEPT !.fn = "generate_splitperft", !.depth = d, !.fen = f, !.moves = m] :
            d \in 0..MaxDepth, f \in {RootFen, <<"Z">>},
            m \in LegalPaths(MaxDepth) \cup {<<mX>>}}

\* No run of the checker is going on.
Idle ==
    /\ entry = "run" /\ file = <<>> /\ start_index = 0 /\ end_index = 0
    /\ gen = PerfectScript /\ runpc = "done" /\ epd_tests = <<>> /\ i = 0
    /\ fen = <<>> /\ tests = <<>> /\ stack = <<>> /\ result = RunOk
    /\ cur = NoObligation /\ started = <<>> /\ invoked = 0
    /\ log = <<>> /\ first = NoRun

PureInit ==
    /\ Idle
    /\ call \in Calls
    /\ ret = NoRet

engine ==
    <<entry, file, start_index, end_index, gen, runpc, epd_tests, i, fen, tests,
      stack, result, cur, started, invoked, log, first>>

Returns(fn, value) ==
    /\ call.fn = fn /\ ret = NoRet
    /\ ret' = value
    /\ UNCHANGED <<call, engine>>

CallCheckMoveLists ==
    Returns("check_move_lists", check_move_lists(call.expected, call.generated))

CallParseResults ==
    Returns("parse_splitperft_results", parse_splitperft_results(call.stdout))

CallParseNodesOnly ==
    Returns("parse_splitperft_output_nodes_only",
            parse_splitperft_output_nodes_only(call.stdout))

CallGenerateSplitperft ==
    Returns("generate_splitperft", generate_splitperft(call.depth, call.fen, call.moves))

PureNext ==
    \/ CallCheckMoveLists
    \/ CallParseResults
    \/ CallParseNodesOnly
    \/ CallGenerateSplitperft

PureSpec == PureInit /\ [][PureNext]_vars

\* ------------------------------------------------------- the second run
\* The same command line run again on the same file but for the expected
\* node counts of its records.

\* The counts written in place of the expected ones.
OtherExpected == {0, 9}

\* "D<depth> <expected>" with the count replaced, when there is one.
WithExpected(perft_data, e) ==
    IF HasRange(perft_data, 3)
       /\ ParseU64(Trim(GetRange(perft_data, 3, Len(perft_data)))) # NoParse
    THEN GetRange(perft_data, 0, 3) \o U64ToString(e)
    ELSE perft_data

RECURSIVE Join(_, _)
Join(parts, c) ==
    IF Len(parts) = 1 THEN parts[1]
    ELSE parts[1] \o <<c>> \o Join(Tail(parts), c)

\* The EPD line with every expected count replaced by e.
LineWithExpected(epd, e) ==
    LET parts == Split(epd, ";")
    IN  Join([j \in 1..Len(parts) |->
                 IF j = 1 THEN parts[1] ELSE WithExpected(parts[j], e)], ";")

FileWithExpected(f, e) == [r \in 1..Len(f) |-> LineWithExpected(f[r], e)]

\* The run is over; it is started again on the changed file.
Rerun ==
    /\ runpc = "done" /\ ~first.ran
    /\ \E e \in OtherExpected : file' = FileWithExpected(file, e)
    /\ first' = [ran |-> TRUE, result |-> result, log |-> log, started |-> started,
                 file |-> file]
    /\ runpc' = "start"
    /\ epd_tests' = <<>>
    /\ i' = 0
    /\ fen' = <<>>
    /\ tests' = <<>>
    /\ stack' = <<>>
    /\ result' = Running
    /\ cur' = NoObligation
    /\ started' = <<>>
    /\ invoked' = 0
    /\ log' = <<>>
    /\ UNCHANGED <<entry, start_index, end_index, gen, call, ret>>

\* The runs with the deterministic scripts.
TwinInit == Init /\ gen.mode = "fixed"

TwinNext ==
    \/ RunStart
    \/ NextRecord
    \/ StartCheck
    \/ ExecUserPerft
    \/ CompareNodes
    \/ ScanMove
    \/ Rerun

TwinSpec == TwinInit /\ [][TwinNext]_vars

\* ------------------------------------------------------------ the claims

\* The obligation in `cur` has been decided (or cut short).
Decided == cur.state \in {"ok", "failed"}

\* The script's answer to the root invocation of the obligation in `cur`.
RootAnswered == cur.state # "none" /\ cur.invocs >= 1 /\ cur.rootOut.exit = "ok"

RootTotal == parse_splitperft_output_nodes_only(cur.rootOut.stdout)

RootUser == parse_splitperft_results(cur.rootOut.stdout)

\* The oracle's answer at the root of the obligation in `cur`.
RootOracle == generate_splitperft(cur.depth, cur.fen, <<>>)

\* The root answer carries a total, and the oracle has one to compare it with.
RootComparable ==
    /\ RootAnswered
    /\ cur.depth >= 1
    /\ RootTotal.status = "ok"
    /\ RootOracle.status = "ok"

\* C1: an obligation of depth >= 1 whose root total equals the oracle's total
\* succeeds with one run of the script, one generate_splitperft and no
\* recursive call; and the perfect script passes every obligation of depth
\* >= 1 on a valid FEN.
C1_MatchSucceedsOnce ==
    /\ (RootComparable /\ RootTotal.nodes = RootOracle.nodes) =>
          /\ cur.invocs = 1
          /\ cur.calls = 0
          /\ cur.splits <= 1
          /\ cur.state \in {"running", "ok"}
          /\ (cur.splits = 1 => cur.state = "ok")
          /\ Len(stack) <= 1
    /\ (gen = PerfectScript /\ cur.state # "none" /\ cur.depth >= 1 /\ ValidFen(cur.fen)) =>
          /\ cur.state \in {"running", "ok"}
          /\ cur.invocs <= 1 /\ cur.splits <= 1 /\ cur.calls = 0

C1_Witness ==
    /\ RootComparable /\ RootTotal.nodes = RootOracle.nodes
    /\ cur.state = "ok" /\ cur.depth = 2
    /\ gen = AnyScript
    /\ RootUser.status = "ok" /\ SumNodes(RootUser.split) # RootTotal.nodes

\* The root answer lists exactly the entries of the oracle's split, in any
\* order, except that the entries `without` are left out and the labels
\* `with` (each with nodes 1) are added.
RootLists(without, with) ==
    /\ RootUser.status = "ok"
    /\ LET want == {RootOracle.split[j] : j \in 1..Len(RootOracle.split)} \ without
           extra == {[mv |-> x, nodes |-> 1] : x \in with}
           got == RootUser.split
       IN  /\ {got[j] : j \in 1..Len(got)} = want \cup extra
           /\ Len(got) = Cardinality(want \cup extra)

\* C2: at depth 1 from the root, a script that lists every legal move but one
\* (with the correct counts) and reports the oracle's total minus one gets
\* the error naming exactly that move, with no applied move and the root FEN.
C2_OneMissingMoveNamed ==
    \A j \in 1..Len(RootOracle.split) :
        (/\ RootComparable /\ cur.depth = 1
         /\ RootTotal.nodes = RootOracle.nodes - 1
         /\ RootLists({RootOracle.split[j]}, {})) =>
            /\ cur.calls = 0
            /\ cur.invocs = 1
            /\ Decided =>
                 /\ cur.state = "failed"
                 /\ result.status = "err"
                 /\ result.kind = "missing_move"
                 /\ result.listed = <<RootOracle.split[j].mv>>
                 /\ result.moves = <<>>
                 /\ result.fen = cur.fen

C2_Witness ==
    /\ RootComparable /\ cur.depth = 1
    /\ RootTotal.nodes = RootOracle.nodes - 1
    /\ RootLists({RootOracle.split[2]}, {})
    /\ result.kind = "missing_move" /\ result.listed = <<mB>>

\* C3: at depth 1, a script that lists every legal move with the correct
\* count and one label that is no legal move (total: the oracle's plus one)
\* gets the illegal-move error listing exactly that label, never success.
C3_OneIllegalMoveNamed ==
    (/\ RootComparable /\ cur.depth = 1
     /\ RootTotal.nodes = RootOracle.nodes + 1
     /\ RootLists({}, {mX})
     /\ Decided) =>
        /\ cur.state = "failed"
        /\ result.status = "err"
        /\ result.kind = "illegal"
        /\ result.listed = <<mX>>

\* C4: a root total equal to the oracle's, with per-move counts that do not
\* add up to it, is reported as an inconsistency of the script and is not a
\* pass.
C4_InconsistentTotalReported ==
    (/\ RootComparable
     /\ RootTotal.nodes = RootOracle.nodes
     /\ RootUser.status = "ok"
     /\ SumNodes(RootUser.split) # RootTotal.nodes
     /\ Decided) =>
        /\ cur.state = "failed"
        /\ result.status = "err"
        /\ result.kind = "inconsistent"

\* C5: no false pass: an obligation whose root total differs from the
\* oracle's never ends in success, whatever the script answers later.
C5_NoFalsePass ==
    (RootComparable /\ RootTotal.nodes # RootOracle.nodes) => cur.state # "ok"

\* The obligation in `cur` is one the engine is specified for: a depth of at
\* least 1 on a FEN the oracle accepts.
ValidObligation == cur.state # "none" /\ cur.depth >= 1 /\ ValidFen(cur.fen)

\* Every recursive call has its caller's depth minus one, and the calls nest
\* no deeper than the obligation's depth.
C6_DepthDecreases ==
    /\ \A k \in 2..Len(stack) : stack[k].depth = stack[k - 1].depth - 1
    /\ (stack # <<>> /\ ValidObligation) =>
          /\ stack[1].depth = cur.depth
          /\ Len(stack) - 1 <= cur.depth

\* C6: the bisection terminates: depths decrease by one per recursive call,
\* the nesting is at most the obligation's depth, and the check of a valid
\* obligation ends by returning Ok or a failure.  A panic the code raises on
\* purpose (expect, unreachable!, unwrap) is counted as a failure here; the
\* overflow of depth - 1, which panics or starts a perft that does not
\* return, is not.
C6_BisectionTerminates ==
    /\ C6_DepthDecreases
    /\ (ValidObligation /\ cur.state = "failed") =>
          /\ result.status \in {"err", "panic"}
          /\ result.kind # "underflow"

\* C7: with end > number of lines or start >= end, run ends with a range
\* error (main's argument check counts as one); no record is parsed and the
\* script is never run.
C7_RangeOutOfBounds ==
    (runpc = "done" /\ (end_index > Len(file) \/ start_index >= end_index)) =>
        /\ result.status \in {"err", "exit"}
        /\ result.kind \in {"range", "args"}
        /\ started = <<>>
        /\ invoked = 0
        /\ i = 0

\* The deterministic script in `gen` has one fault in its move generation,
\* at a position whose subtree count the obligation in `cur` sees wrong.
FaultDepth == cur.depth - Len(gen.at)

SingleFaultSeen ==
    /\ gen.mode = "fixed" /\ gen.kind \in {"missing", "extra"}
    /\ ValidObligation
    /\ FaultDepth >= 1
    /\ UserPerft(gen, gen.at, FaultDepth) # Perft(gen.at, FaultDepth)

\* Localized == as many recursive calls as the faulty position is deep, and an
\* Err whose applied moves are the moves leading to it.
Localized ==
    /\ cur.calls <= Len(gen.at)
    /\ Decided =>
          /\ cur.calls = Len(gen.at)
          /\ cur.state = "failed"
          /\ result.status = "err"
          /\ result.moves = gen.at

\* C8: a script right everywhere but for one subtree count, at ply k of a
\* depth-n obligation, costs exactly n - k recursive calls and gets a
\* diagnosis whose applied moves are the n - k moves leading to the fault.
C8_FaultLocalized == SingleFaultSeen => Localized

\* The part of C8 the code keeps: a script that omits one legal move.
C8_MissingMoveLocalized == (SingleFaultSeen /\ gen.kind = "missing") => Localized

\* The number of obligations of the r-th line of the slice.
NumObligations(r) == Len(parse_epd(epd_tests[r]).tests)

\* started[j] follows started[j - 1] in the order of the file: the next
\* obligation of the same record, or the first of a later record once the
\* earlier one's obligations have all been started.
StartedInOrder ==
    \A j \in 1..Len(started) :
        LET r == started[j][1]
            o == started[j][2]
        IN  /\ r \in 1..i /\ o \in 1..NumObligations(r)
            /\ IF j = 1 THEN o = 1 /\ \A q \in 1..(r - 1) : NumObligations(q) = 0
               ELSE LET pr == started[j - 1][1]
                        po == started[j - 1][2]
                    IN  \/ r = pr /\ o = po + 1
                        \/ /\ r > pr /\ o = 1 /\ po = NumObligations(pr)
                           /\ \A q \in (pr + 1)..(r - 1) : NumObligations(q) = 0

\* The record being run is the i-th line of the slice start_index..end_index.
SliceInOrder ==
    runpc # "start" =>
        /\ i <= Len(epd_tests)
        /\ \A r \in 1..Len(epd_tests) : epd_tests[r] = file[start_index + r]

\* Every obligation starts as check_splitperft::<false>(depth, fen, &[]).
StartsNormal ==
    stack # <<>> =>
        /\ ~stack[1].illegal /\ stack[1].moves = <<>>
        /\ cur.rec = i /\ started[Len(started)] = <<cur.rec, cur.obl>>
        /\ stack[1].depth = parse_epd(epd_tests[cur.rec]).tests[cur.obl].depth
        /\ fen = parse_epd(epd_tests[cur.rec]).fen

\* A failed obligation is the failure of the run, and no call of
\* check_splitperft survives it.
FailureAborts ==
    /\ cur.state = "failed" => result.status \notin {"running", "ok"}
    /\ result.status # "running" => stack = <<>>

NothingAfterFailure ==
    result.status # "running" =>
        /\ invoked' = invoked /\ started' = started /\ result' = result /\ i' = i

\* C9: records are run in file order and obligations in listed order, each
\* from the root in Normal mode; the first failure of any kind aborts the
\* run: nothing is started and the script is not run after it.
C9_InOrderAbortOnFailure ==
    /\ [](SliceInOrder /\ StartedInOrder /\ StartsNormal /\ FailureAborts)
    /\ [][NothingAfterFailure]_vars

C9_Witness ==
    /\ result.status = "err" /\ result.kind \in {"missing", "missing_move"}
    /\ Len(epd_tests) = 2 /\ i = 1
    /\ started = << <<1, 1>>, <<1, 2>> >>
    /\ invoked = 3

\* C10: a frame that has made its recursive call scans no further move,
\* whatever the call returned; so it makes at most one recursive call, and an
\* obligation of depth n runs the script at most n times.
C10_FirstDivergentOnly ==
    /\ \A k \in 1..Len(stack) :
          /\ stack[k].calls <= 1
          /\ (stack[k].calls = 1 /\ k = Len(stack)) =>
                ~(stack[k].pc = "scan" /\ stack[k].idx <= Len(stack[k].correct))
    /\ ValidObligation => cur.invocs <= cur.depth

\* A frame makes a second recursive call.
C10_SecondCall == \E k \in 1..Len(stack) : stack[k].calls = 2

\* The depth-0 call of generate_splitperft on a position with a legal move.
C6_Underflow == ValidObligation /\ result.kind = "underflow" /\ result.status = "hang"

\* run called with start_index = end_index returns Ok without a record.
C7_SilentOk ==
    /\ entry = "run" /\ start_index = end_index /\ end_index <= Len(file)
    /\ result = RunOk /\ started = <<>>

\* Every move of the oracle's split at the root is found in the root answer
\* (by the find of line 267) with an equal count.
RootMovesAgree ==
    /\ RootUser.status = "ok"
    /\ \A j \in 1..Len(RootOracle.split) :
          LET k == FindMove(RootUser.split, RootOracle.split[j].mv)
          IN  k # 0 /\ RootUser.split[k].nodes = RootOracle.split[j].nodes

\* C11: in the mismatch case (root total # oracle total), when every oracle
\* move is present in the answer with an equal count, the check ends in a
\* failure that reports the script's arithmetic as inconsistent, never in
\* success.
C11_ArithmeticInconsistencyReported ==
    (/\ RootComparable
     /\ RootTotal.nodes # RootOracle.nodes
     /\ RootMovesAgree
     /\ Decided) =>
        /\ cur.state = "failed"
        /\ result.status = "err"
        /\ result.kind = "inconsistent"

\* The mismatch branch left by the Ok(()) of line 296.
C11_FallThrough ==
    /\ RootComparable /\ RootTotal.nodes # RootOracle.nodes /\ RootMovesAgree
    /\ cur.state = "ok" /\ cur.calls = 0

\* The two lists of the terminal case (lines 224-235) of the frame f.
legal_moves(f) == Sort(MoveLabels(generate_splitperft(f.depth, fen, f.moves).split))

generated_moves(f) == Sort(MoveLabels(parse_splitperft_results(f.stdout).split))

\* The frame f is at the terminal case: Localizing mode, depth 1, the answer
\* parsed, the call of check_move_lists (line 238) next.
AtTerminalCase(f) ==
    /\ f.illegal /\ f.depth = 1 /\ f.pc = "compare"
    /\ parse_splitperft_output_nodes_only(f.stdout).status = "ok"
    /\ generate_splitperft(f.depth, fen, f.moves).status = "ok"
    /\ parse_splitperft_results(f.stdout).status = "ok"

\* C12: whenever the terminal case is reached, check_move_lists returns a
\* divergence for the two lists, and the unreachable! of line 239 is never
\* executed, whatever the script answers.
C12_UnreachableNeverExecuted ==
    /\ \A k \in 1..Len(stack) :
          AtTerminalCase(stack[k]) =>
              check_move_lists(legal_moves(stack[k]), generated_moves(stack[k])).status = "err"
    /\ ~(result.status = "panic" /\ result.kind = "unreachable")

\* The unreachable! executed for a deterministic script whose depth-1 answer
\* is right although its parent-level count was wrong.
C12_UnreachableHit ==
    /\ result.status = "panic" /\ result.kind = "unreachable"
    /\ gen.mode = "fixed" /\ gen.kind = "miscount"

\* The labels of a list, as a set.
Labels(list) == {list[j] : j \in 1..Len(list)}

\* No label twice (a list of legal moves), in ascending order (line 228).
IsMoveList(list) == \A j \in 1..(Len(list) - 1) : StrLess(list[j], list[j + 1])

\* check_move_lists was called on a list of legal moves and has returned.
DifferReturned ==
    /\ call.fn = "check_move_lists" /\ ret # NoRet
    /\ IsMoveList(call.expected)

\* C13: Move-List Differ, lists of equal size: when generated - expected is
\* not empty the result is a failure that names as illegal exactly the labels
\* of generated - expected and as neglected exactly those of expected -
\* generated.
C13_EqualSizeNamesDifferences ==
    (/\ DifferReturned
     /\ IsMoveList(call.generated)
     /\ Len(call.expected) = Len(call.generated)
     /\ Labels(call.generated) \ Labels(call.expected) # {}) =>
        /\ ret.status = "err"
        /\ Labels(ret.listed) = Labels(call.generated) \ Labels(call.expected)
        /\ Labels(ret.also) = Labels(call.expected) \ Labels(call.generated)

\* C14: Move-List Differ, lists of unequal size: more expected labels give the
\* missing-moves failure listing exactly expected - generated, more generated
\* labels the illegal-moves failure listing exactly generated - expected; the
\* listed set is not empty.
C14_UnequalSizeListsDifference ==
    /\ (DifferReturned /\ Len(call.expected) > Len(call.generated)) =>
          /\ ret.status = "err" /\ ret.kind = "missing"
          /\ Labels(ret.listed) = Labels(call.expected) \ Labels(call.generated)
          /\ ret.listed # <<>>
    /\ (DifferReturned /\ Len(call.expected) < Len(call.generated)) =>
          /\ ret.status = "err" /\ ret.kind = "illegal"
          /\ Labels(ret.listed) = Labels(call.generated) \ Labels(call.expected)
          /\ ret.listed # <<>>

\* The illegal-moves failure of the terminal case with no label to list.
C14_EmptyIllegalList ==
    /\ result.status = "err" /\ result.kind = "illegal" /\ result.listed = <<>>

\* The per-move lines as the claim reads them: the lines are taken in order
\* up to the first one that lacks a label or a count.
RECURSIVE LinesUntilStop(_)
LinesUntilStop(lines) ==
    IF lines = <<>> \/ ParseSplitLine(lines[1]).kind = "skip" THEN <<>>
    ELSE <<lines[1]>> \o LinesUntilStop(Tail(lines))

\* The lines before the last one.
BeforeLast(stdout) == SubSeq(stdout, 1, Len(stdout) - 1)

ParseReturned(fn) == call.fn = fn /\ ret # NoRet

\* The last line is no per-move line (it holds at most one token).
LastLineIsNoEntry ==
    call.stdout # <<>> /\ ParseSplitLine(call.stdout[Len(call.stdout)]).kind = "skip"

\* The total is the last line with the blanks around it ignored; no line at
\* all and a last line that is no number are two failure values.
C15_TotalFromLastLine ==
    ParseReturned("parse_splitperft_output_nodes_only") =>
        IF call.stdout = <<>> THEN ret.status = "noline"
        ELSE LET n == ParseU64(Trim(call.stdout[Len(call.stdout)]))
             IN  IF n = NoParse THEN ret.status = "badtotal"
                 ELSE ret.status = "ok" /\ ret.nodes = n

\* The entries are those of the lines before the last one, up to the first
\* line that lacks a label or a count.
C15_EntriesStopAtFirstBadLine ==
    (/\ ParseReturned("parse_splitperft_results")
     /\ LastLineIsNoEntry
     /\ ret.status = "ok") =>
        ret.split = SplitEntries(LinesUntilStop(BeforeLast(call.stdout)))

\* A count that is no number, on a line that is read, is a failure value and
\* not a panic; without one the parse succeeds.
C15_MalformedCountIsFailure ==
    (ParseReturned("parse_splitperft_results") /\ LastLineIsNoEntry) =>
        /\ ret.status \in {"ok", "err"}
        /\ ret.status = "err" <=>
             \E j \in 1..Len(LinesUntilStop(BeforeLast(call.stdout))) :
                 ParseSplitLine(call.stdout[j]).kind = "panic"

\* C15: parsing of the script's output: per-move entries come from the lines
\* before the last and stop at the first line without a label or a count;
\* the last line alone, blanks around it ignored, is the total; no line gives
\* the missing-total failure, a count or total that is no number a
\* malformed-count failure value, never a crash.
C15_OutputParsing ==
    /\ C15_TotalFromLastLine
    /\ C15_EntriesStopAtFirstBadLine
    /\ C15_MalformedCountIsFailure

\* The part of C15 the code keeps: no line at all is the missing-total
\* failure, and a last line of digits is the total.
C15_PlainTotal ==
    ParseReturned("parse_splitperft_output_nodes_only") =>
        /\ call.stdout = <<>> => ret.status = "noline"
        /\ (call.stdout # <<>> /\ ParseU64(call.stdout[Len(call.stdout)]) # NoParse) =>
              ret.status = "ok" /\ ret.nodes = ParseU64(call.stdout[Len(call.stdout)])

\* The expect of line 108 panics inside a run of the checker.
C15_ExpectPanic == result.status = "panic" /\ result.kind = "expect"

\* generate_splitperft was called on a position the oracle accepts and is
\* over (returned, or ended in the overflow of depth - 1).
OracleSplitReturned ==
    /\ call.fn = "generate_splitperft" /\ ret # NoRet
    /\ ValidFen(call.fen) /\ MovesApply(<<>>, call.moves)

\* C16: generate_splitperft with depth 0 returns the total 1 and no per-move
\* entry, with no subtraction below zero; with depth >= 1 it returns a total
\* equal to the sum of its per-move counts.
C16_DegenerateDepthZero ==
    OracleSplitReturned =>
        /\ ret.status = "ok"
        /\ call.depth = 0 => (ret.nodes = 1 /\ ret.split = <<>>)
        /\ call.depth >= 1 => ret.nodes = SumNodes(ret.split)

\* The part of C16 the code keeps: with depth >= 1 the call returns, its
\* total is the sum of its per-move counts and the perft of the position.
C16_TotalIsSum ==
    (OracleSplitReturned /\ call.depth >= 1) =>
        /\ ret.status = "ok"
        /\ ret.nodes = SumNodes(ret.split)
        /\ ret.nodes = Perft(call.moves, call.depth)

\* Depth 0 on a position without a legal move: the total returned is 0.
C16_ZeroAtMate ==
    /\ OracleSplitReturned /\ call.depth = 0
    /\ ret.status = "ok" /\ ret.nodes = 0

\* Every frame of the stack holds its depth and moves as they were passed.
FramesKept ==
    \A k \in 1..Len(stack) :
        k <= Len(stack') =>
            /\ stack'[k].moves = stack[k].moves
            /\ stack'[k].depth = stack[k].depth

\* In every call, len(moves) + depth is the obligation's depth; a recursive
\* call has its caller's moves and one more, a move of the caller's correct
\* splitperft; the moves of every call apply from the root.
HistoryInvariant ==
    (cur.state = "running" /\ ValidFen(cur.fen)) =>
        /\ \A k \in 1..Len(stack) :
              /\ Len(stack[k].moves) + stack[k].depth = cur.depth
              /\ MovesApply(<<>>, stack[k].moves)
        /\ \A k \in 2..Len(stack) :
              /\ Len(stack[k].moves) = Len(stack[k - 1].moves) + 1
              /\ SubSeq(stack[k].moves, 1, Len(stack[k - 1].moves)) = stack[k - 1].moves
              /\ Contains(MoveLabels(stack[k - 1].correct), stack[k].moves[Len(stack[k].moves)])

\* The panics of Move::from_uci on a move that does not apply (lines 145, 306).
NoInvalidMovePanic ==
    ~(result.status = "panic" /\ result.kind = "badmove")
    /\ (result.status = "panic" /\ result.kind \in {"badfen", "fen"}) => ~ValidFen(cur.fen)

\* C17: in every call of check_splitperft for an obligation of depth n,
\* len(history) + depth = n; a recursive call's history is its caller's with
\* one move appended, and the caller's history is unchanged afterwards; every
\* history is a sequence of legal moves, so applying it never panics.
C17_HistoryInvariant ==
    /\ [](HistoryInvariant /\ NoInvalidMovePanic)
    /\ [][FramesKept]_vars

\* A Localizing call two moves below the root that has ended in its Err,
\* with the moves that led to it.
C17_Witness ==
    /\ result.status = "err" /\ Len(result.moves) = 2
    /\ cur.depth = 3 /\ cur.calls >= 2
    /\ MovesApply(<<>>, result.moves)

\* The executions of the script made for the obligation in `cur`.
ObligationLog == SubSeq(log, Len(log) - cur.invocs + 1, Len(log))

\* C18: while an obligation of depth n >= 1 is checked, every call of
\* check_splitperft, every execution of the script and every oracle split
\* has depth >= 1: the engine never recurses from depth 1 to depth 0 and
\* never evaluates depth - 1 with depth = 0.
C18_DepthAtLeastOne ==
    ValidObligation =>
        /\ \A k \in 1..Len(stack) : stack[k].depth >= 1
        /\ \A j \in 1..Len(ObligationLog) : ObligationLog[j].depth >= 1
        /\ cur.state = "failed" => result.kind # "underflow"

\* The script is executed with depth 0 for an obligation of depth 1.
C18_DepthZeroCall ==
    /\ ValidObligation /\ cur.depth = 1
    /\ Len(stack) = 2 /\ Top.depth = 0 /\ Top.pc = "compare"
    /\ ObligationLog[2].depth = 0

\* The two runs ended alike: with the same Ok, Err or panic, or both in the
\* overflow of depth - 1, whose outcome (panic or no return) is that of the
\* build, the same for both runs.
SameResult(r1, r2) ==
    \/ r1 = r2
    \/ r1.kind = "underflow" /\ r2.kind = "underflow"

\* C19: the expected node count of a record is never compared with anything:
\* two runs on files that differ only in expected counts, with a script that
\* answers the same, execute the script with the same sequence of arguments,
\* start the same obligations and end with the same result.
C19_ExpectedNeverCompared ==
    first.ran =>
        /\ IsPrefix(log, first.log)
        /\ IsPrefix(started, first.started)
        /\ runpc = "done" =>
              /\ SameResult(result, first.result)
              /\ log = first.log
              /\ started = first.started

\* Two runs that ended in the same Err after the same three executions, the
\* expected counts of the first file right and those of the second wrong.
C19_Witness ==
    /\ first.ran /\ runpc = "done"
    /\ file # first.file
    /\ result.status = "err" /\ result = first.result
    /\ Len(log) = 3 /\ log = first.log

\* Two runs that both passed every obligation of a two-record file.
C19_WitnessPass ==
    /\ first.ran /\ runpc = "done"
    /\ file # first.file /\ Len(file) = 2
    /\ result = RunOk /\ first.result = RunOk
    /\ Len(log) >= 2 /\ log = first.log

====
